---------------------------- MODULE Spec2Model ----------------------------
(***************************************************************************)
(* Model of the two build-time ingestion scripts                           *)
(*   scripts/fetch_prices.py  (price pipeline, with the ticker dedup cache)*)
(*   scripts/fetch_news.py    (news pipeline, with the article normalizer) *)
(*                                                                         *)
(* Spec      runs either script once: Init picks the script, the           *)
(*           configuration and the files the output directory already      *)
(*           holds; one action per way an iteration of the per-symbol loop *)
(*           can go, plus the index write.                                 *)
(* SpecNorm  applies the news normalization (fetch_news.py lines 39-59)    *)
(*           to one raw provider response drawn from RawNewsInputs.        *)
(***************************************************************************)
EXTENDS Integers, Sequences, FiniteSets, TLC

VARIABLES
    pipeline,       \* "prices" | "news" | "normalize": which program runs
    ticker_map,     \* the loaded configuration, by rank of the code in sorted order
    files,          \* out_dir/<code>.json for every code
    index_file,     \* out_dir/index.json
    pc,             \* "loop" | "done" | "crashed" (uncaught exception)
    i,              \* rank of the symbol the for loop handles next
    now,            \* the clock read by time.strftime
    price_index,    \* price_index / news_index
    success_count,
    error_count,
    seen_tickers,   \* the dedup cache (price pipeline only)
    raw_news,       \* the local raw_news of fetch_news.main
    processed,      \* the local processed of fetch_news.main
    fetch_calls,    \* history: provider invocations per ticker
    ret,            \* history: what the provider returned for each code
    io              \* history: how the artifact write of each code went

vars == <<pipeline, ticker_map, files, index_file, pc, i, now, price_index,
          success_count, error_count, seen_tickers, raw_news, processed,
          fetch_calls, ret, io>>

-----------------------------------------------------------------------------
(* Bounds *)

\* number of symbol codes in tickers.json
NumCodes == 3
\* how many entries beyond the cap the longest raw news sequence holds
MaxExtra == 2

\* articles[:20]
MaxArticles == 20

Codes == 1..NumCodes
Tickers == {"T1", "T2"}

-----------------------------------------------------------------------------
(* JSON values as the Python code sees them: every value carries its kind.  *)
(* A dict is a total function over AllKeys whose missing keys hold Absent.  *)

AllKeys == {"news", "content", "title", "provider", "displayName", "publisher",
            "canonicalUrl", "url", "link", "pubDate", "providerPublishTime",
            "thumbnail", "originalUrl", "relatedTickers", "finance"}

\* a value: its kind and, by kind, a string, a number, the entries of a list
\* or the fields of a dict
Val(kind, str, num, entries, dict) ==
    [k |-> kind, s |-> str, n |-> num, items |-> entries, fields |-> dict]
Absent == Val("absent", "", 0, <<>>, <<>>)
\* an exception in place of a value
Raise == Val("raise", "", 0, <<>>, <<>>)
JNone == Val("none", "", 0, <<>>, <<>>)
JStr(str) == Val("str", str, 0, <<>>, <<>>)
JNum(num) == Val("num", "", num, <<>>, <<>>)
JList(entries) == Val("list", "", 0, entries, <<>>)
JDict(f) == Val("dict", "", 0, <<>>, f)
\* the list a block of code built
Ok(entries) == Val("ok", "", 0, entries, <<>>)
NotRun == Val("notrun", "", 0, <<>>, <<>>)
NoFields == [key \in AllKeys |-> Absent]
EmptyDict == JDict(NoFields)
EmptyList == JList(<<>>)
EmptyStr == JStr("")

\* isinstance(x, dict), isinstance(x, list)
IsDict(x) == x.k = "dict"
IsList(x) == x.k = "list"
\* key in d
HasKey(d, key) == IsDict(d) /\ d.fields[key].k # "absent"

\* d.get(key, default): the default is evaluated first; .get on a value that
\* is no dict raises AttributeError
PyGet(d, key, default) ==
    IF default.k = "raise" \/ ~IsDict(d) THEN Raise
    ELSE IF d.fields[key].k # "absent" THEN d.fields[key]
    ELSE default

\* x[:n]: a list is cut to its first n entries; the characters of a string are
\* no records, so the loop over them appends nothing, as over the empty list;
\* None, a number or a dict raise TypeError
PySlice(x, n) ==
    IF IsList(x) THEN JList(SubSeq(x.items, 1, IF Len(x.items) < n THEN Len(x.items) ELSE n))
    ELSE IF x.k = "str" THEN EmptyList
    ELSE Raise

-----------------------------------------------------------------------------
(* fetch_news.py lines 39-59: shape resolution and article normalization *)

\* lines 40-45
ResolveArticles(raw) ==
    IF IsDict(raw) /\ HasKey(raw, "news") THEN raw.fields["news"]
    ELSE IF IsList(raw) THEN raw
    ELSE EmptyList

\* line 49, mutated: the whole sequence, no cap
FirstArticles_NoCap(articles) ==
    IF IsList(articles) \/ articles.k = "str" THEN articles ELSE Raise

\* line 49: articles[:20]
FirstArticles(articles) == PySlice(articles, MaxArticles)

\* line 50
Unwrap(article) ==
    IF IsDict(article) THEN PyGet(article, "content", article) ELSE article

\* line 53
TitleOf(content) == PyGet(content, "title", EmptyStr)

\* line 54
PublisherOf(content) ==
    IF IsDict(PyGet(content, "provider", JNone))
    THEN PyGet(PyGet(content, "provider", EmptyDict), "displayName", EmptyStr)
    ELSE PyGet(content, "publisher", EmptyStr)

\* line 55
LinkOf(content) ==
    IF IsDict(PyGet(content, "canonicalUrl", JNone))
    THEN PyGet(PyGet(content, "canonicalUrl", EmptyDict), "url", EmptyStr)
    ELSE PyGet(content, "link", PyGet(content, "url", EmptyStr))

\* line 56
PublishedAtOf(content) ==
    PyGet(content, "pubDate", PyGet(content, "providerPublishTime", EmptyStr))

\* line 57
ThumbnailOf(content) ==
    IF IsDict(PyGet(content, "thumbnail", JNone))
    THEN PyGet(PyGet(content, "thumbnail", EmptyDict), "originalUrl", EmptyStr)
    ELSE EmptyStr

\* line 58: the conditional expression spans the whole right-hand side, so
\* the guard on finance also decides whether the direct field is read
RelatedTickersOf(content) ==
    IF IsDict(PyGet(content, "finance", EmptyDict))
    THEN PyGet(content, "relatedTickers",
               PyGet(PyGet(content, "finance", EmptyDict), "relatedTickers", EmptyList))
    ELSE EmptyList

\* lines 52-59: the appended record
Article(content) ==
    [title |-> TitleOf(content),
     publisher |-> PublisherOf(content),
     link |-> LinkOf(content),
     publishedAt |-> PublishedAtOf(content),
     thumbnail |-> ThumbnailOf(content),
     relatedTickers |-> RelatedTickersOf(content)]

ArticleFields == {"title", "publisher", "link", "publishedAt", "thumbnail",
                  "relatedTickers"}

\* building the record raised
ArticleRaises(a) == \E f \in ArticleFields : a[f].k = "raise"

\* lines 48-59: the for loop, from entry j on, with the articles appended so far
RECURSIVE ProcessFrom(_, _, _)
ProcessFrom(s, j, acc) ==
    IF j > Len(s) THEN Ok(acc)
    ELSE LET content == Unwrap(s[j]) IN
         IF content.k = "raise" THEN Raise
         ELSE IF IsDict(content)
              THEN IF ArticleRaises(Article(content)) THEN Raise
                   ELSE ProcessFrom(s, j + 1, Append(acc, Article(content)))
              ELSE ProcessFrom(s, j + 1, acc)

\* lines 39-59: the value of processed, or Raise when an exception escapes
NormalizeNews(raw) ==
    LET first == FirstArticles(ResolveArticles(raw)) IN
    IF first.k = "raise" THEN Raise
    ELSE IF first.k = "str" THEN Ok(<<>>)
    ELSE ProcessFrom(first.items, 1, <<>>)

-----------------------------------------------------------------------------
(* Raw provider responses the normalizer is applied to *)

\* a dict holding the given fields and nothing else
Mk(f) == JDict([key \in AllKeys |-> IF key \in DOMAIN f THEN f[key] ELSE Absent])
\* dict d with one more field
With(d, key, val) == JDict([d.fields EXCEPT ![key] = val])

RelOpts == {Absent, JList(<<JStr("AAA")>>)}
FinanceOpts == {Absent, EmptyDict, JNone, JStr("n/a"),
                Mk([relatedTickers |-> JList(<<JStr("BBB")>>)])}
ProviderOpts == {Absent, EmptyDict, JStr("Wire"), Mk([displayName |-> JStr("Desk")])}
UrlDictOpts == {Absent, JNone, EmptyDict, Mk([url |-> JStr("u1")])}
ThumbOpts == {Absent, JNone, JStr("t.png"), EmptyDict, Mk([originalUrl |-> JStr("o1")])}
StrOpt(s) == {Absent, JStr(s)}

\* article records: each family varies the fields one output field reads
ContentDicts ==
    {JDict([NoFields EXCEPT !["title"] = t, !["relatedTickers"] = r, !["finance"] = f]) :
        t \in StrOpt("X"), r \in RelOpts, f \in FinanceOpts}
    \cup {JDict([NoFields EXCEPT !["provider"] = p, !["publisher"] = q]) :
        p \in ProviderOpts, q \in StrOpt("Pub")}
    \cup {JDict([NoFields EXCEPT !["canonicalUrl"] = c, !["link"] = l, !["url"] = u]) :
        c \in UrlDictOpts, l \in StrOpt("l1"), u \in StrOpt("u2")}
    \cup {JDict([NoFields EXCEPT !["pubDate"] = d, !["providerPublishTime"] = n]) :
        d \in StrOpt("2024-01-02"), n \in {Absent, JNum(17)}}
    \cup {JDict([NoFields EXCEPT !["thumbnail"] = t]) : t \in ThumbOpts}

\* entries that are no records
NonRecords == {JNone, JStr("text"), JNum(7), JList(<<JStr("x")>>)}

\* entries of a response: flat records, records wrapping a content sub-record,
\* records whose content field is no record, and values that are no records
Entries ==
    ContentDicts
    \cup {Mk([content |-> d]) : d \in ContentDicts}
    \cup {With(d, "content", c) : d \in ContentDicts, c \in {JNone, JStr("body")}}
    \cup NonRecords

\* the entries the long sequences are made of
FewEntries == {Mk([title |-> JStr("A")]),
               Mk([content |-> Mk([title |-> JStr("B")])]),
               With(Mk([title |-> JStr("C")]), "content", JStr("body")),
               JStr("text")}

\* a, b, a, b, ... of length n
Alternate(a, b, n) == [j \in 1..n |-> IF j % 2 = 1 THEN a ELSE b]

EntrySeqs ==
    {<<>>}
    \cup {<<e>> : e \in Entries}
    \cup {<<e, g>> : e \in Entries, g \in FewEntries}
    \cup {Alternate(a, b, n) : a \in FewEntries, b \in FewEntries,
                              n \in (MaxArticles - 1)..(MaxArticles + MaxExtra)}

\* the three shapes: a bare sequence, a record with a news key holding a
\* sequence, and a value with neither (None, a record without news)
RawNewsInputs ==
    {JList(s) : s \in EntrySeqs}
    \cup {Mk([news |-> JList(s)]) : s \in EntrySeqs}
    \cup {JNone, EmptyDict, Mk([title |-> JStr("X")])}

-----------------------------------------------------------------------------
(* Files, provider results and price rows *)

NoFile == [kind |-> "absent", obj |-> <<>>]
\* a file opened for writing whose json.dump did not finish: no valid JSON
Corrupt == [kind |-> "corrupt", obj |-> <<>>]
JsonFile(doc) == [kind |-> "json", obj |-> doc]

NotCalled == [kind |-> "notcalled", val |-> <<>>]
Raised == [kind |-> "raised", val |-> <<>>]
Returned(x) == [kind |-> "returned", val |-> x]

\* how open(out_path, "w") + json.dump can go: done; open raised (the file
\* is as it was); the dump raised after open truncated the file
WriteFailures == {"openfail", "truncated"}

\* f with key bound to val: f[key] = val on a Python dict
Put(f, key, val) == [x \in DOMAIN f \cup {key} |-> IF x = key THEN val ELSE f[x]]

NaN == Val("nan", "", 0, <<>>, <<>>)

\* rows of hist; prices in ten-thousandths, Volume a float
Row1 == [date |-> "2024-01-02", Open |-> 12344, High |-> 12506, Low |-> 12001,
         Close |-> 12349, Volume |-> JNum(1000)]
Row2 == [date |-> "2024-01-03", Open |-> 12349, High |-> 12999, Low |-> 12342,
         Close |-> 12658, Volume |-> JNum(0)]
RowNaN == [date |-> "2024-01-04", Open |-> 12658, High |-> 12658, Low |-> 12658,
           Close |-> 12658, Volume |-> NaN]

\* what stock.history can return
Hists == {<<>>, <<Row1>>, <<Row1, Row2>>, <<Row1, RowNaN>>}

\* round(float(x), 3), x in ten-thousandths, the result in thousandths
Round3(x) ==
    LET q == x \div 10
        r == x % 10
    IN IF r < 5 THEN q
       ELSE IF r > 5 THEN q + 1
       ELSE IF q % 2 = 0 THEN q ELSE q + 1

\* lines 65-72: one appended bar
PriceBar(row) ==
    [date |-> row.date, open |-> Round3(row.Open), high |-> Round3(row.High),
     low |-> Round3(row.Low), close |-> Round3(row.Close), volume |-> row.Volume.n]

\* int(row["Volume"]) raises ValueError on NaN
RowRaises(row) == row.Volume.k = "nan"
HistRaises(hist) == \E j \in 1..Len(hist) : RowRaises(hist[j])

\* lines 63-72
NormalizePrices(hist) == [j \in 1..Len(hist) |-> PriceBar(hist[j])]

\* lines 76-82
PriceArtifact(ticker, code, prices, t) ==
    [ticker |-> ticker, code |-> code, days |-> Len(prices), prices |-> prices,
     fetchedAt |-> t]

\* fetch_news.py line 64
NewsArtifact(ticker, code, articles, t) ==
    [ticker |-> ticker, code |-> code, articles |-> articles, fetchedAt |-> t]

\* an artifact a previous run left in the output directory
StaleBar == [date |-> "2023-06-01", open |-> 9000, high |-> 9100, low |-> 8900,
             close |-> 9050, volume |-> 5]
StaleArticle == Article(Mk([title |-> JStr("old")]))
StaleFile(p, code, ticker) ==
    IF p = "prices"
    THEN JsonFile(PriceArtifact(ticker, code, <<StaleBar>>, 0))
    ELSE JsonFile(NewsArtifact(ticker, code, <<StaleArticle>>, 0))

\* what stock.news can return in a run: two valid shapes with articles, two
\* without, and a record whose news field is no sequence
NewsResponses ==
    {Mk([news |-> JList(<<Mk([content |-> Mk([title |-> JStr("X")])])>>)]),
     JList(<<Mk([title |-> JStr("Y"), publisher |-> JStr("Pub")]), JStr("text"),
             Mk([title |-> JStr("Z")])>>),
     JList(<<>>),
     Mk([news |-> JNone])}

\* each response with what lines 39-59 make of it
NewsCases == {[raw |-> r, out |-> NormalizeNews(r)] : r \in NewsResponses}

-----------------------------------------------------------------------------
(* The run: state after the configuration has loaded (lines 21-35) *)

\* what a previous run left in the output directory: for each code no file or
\* an artifact, fetched under the ticker the code had then. The news script
\* never reads the directory: it starts empty or full
PreviousRuns(p, tm) ==
    IF p = "prices" THEN [Codes -> {"none"} \cup Tickers]
    ELSE {[c \in Codes |-> "none"], [c \in Codes |-> tm[c]]}

Init ==
    /\ pipeline \in {"prices", "news"}
    /\ ticker_map \in [Codes -> Tickers]
    /\ \E old \in PreviousRuns(pipeline, ticker_map) :
          files = [c \in Codes |->
                     IF old[c] = "none" THEN NoFile ELSE StaleFile(pipeline, c, old[c])]
    /\ index_file = NoFile
    /\ pc = "loop"
    /\ i = 1
    /\ now = 1
    /\ price_index = <<>>
    /\ success_count = 0
    /\ error_count = 0
    /\ seen_tickers = <<>>
    /\ raw_news = JNone
    /\ processed = NotRun
    /\ fetch_calls = [t \in Tickers |-> 0]
    /\ ret = [c \in Codes |-> NotCalled]
    /\ io = [c \in Codes |-> "none"]

\* the for loop of either script is at symbol i
AtSymbol(p) == pipeline = p /\ pc = "loop" /\ i \in Codes

\* fetch_prices.py line 37, mutated: the cache is never consulted
CacheHit_Never(ticker) == FALSE

\* fetch_prices.py line 37: ticker in seen_tickers
CacheHit(ticker) == ticker \in DOMAIN seen_tickers

\* lines 43-45, mutated: data["code"] = code forgotten
CloneOf_KeepsCode(data, code) == data

\* lines 43-45, mutated: the clone is stamped with the current time
CloneOf_Restamped(data, code) == [data EXCEPT !.code = code, !.fetchedAt = now]

\* lines 43-45: the loaded document with its code replaced
CloneOf(data, code) == [data EXCEPT !.code = code]

\* lines 89 and 72 of the two scripts, mutated: the failure is not counted
CountError_Forgotten(n) == n

\* error_count += 1
CountError(n) == n + 1

\* lines 95-99 (fetch_news.py lines 78-82): the index document
IndexDocument(stocks, count, t) ==
    [stocks |-> stocks, fetchedAt |-> t, totalStocks |-> count]

\* the iteration ends: the loop moves to the next symbol; the provider call
\* and the file access took time, so a later time.strftime reads a later clock
NextSymbol == i' = i + 1 /\ now' = now + 1 /\ pc' = pc

\* an exception leaves main: the process dies at symbol i
Crash == pc' = "crashed" /\ i' = i /\ now' = now

(* fetch_prices.py, lines 37-52: the ticker is in the cache *)

\* lines 41, 52: the source file is absent
ReuseSkip ==
    /\ AtSymbol("prices")
    /\ CacheHit(ticker_map[i])
    /\ files[seen_tickers[ticker_map[i]]].kind = "absent"
    /\ NextSymbol
    /\ UNCHANGED <<pipeline, ticker_map, files, index_file, price_index, success_count,
                   error_count, seen_tickers, raw_news, processed, fetch_calls, ret, io>>

\* lines 42-43: json.load of a file that holds no JSON raises, outside any try
ReuseReadFails ==
    /\ AtSymbol("prices")
    /\ CacheHit(ticker_map[i])
    /\ files[seen_tickers[ticker_map[i]]].kind = "corrupt"
    /\ Crash
    /\ UNCHANGED <<pipeline, ticker_map, files, index_file, price_index, success_count,
                   error_count, seen_tickers, raw_news, processed, fetch_calls, ret, io>>

\* lines 41-52: the source is loaded, cloned, written and indexed
ReuseClone ==
    /\ AtSymbol("prices")
    /\ CacheHit(ticker_map[i])
    /\ files[seen_tickers[ticker_map[i]]].kind = "json"
    /\ LET data == CloneOf(files[seen_tickers[ticker_map[i]]].obj, i) IN
         /\ files' = [files EXCEPT ![i] = JsonFile(data)]
         /\ price_index' = Put(price_index, i,
                                [ticker |-> ticker_map[i], days |-> data.days])
    /\ success_count' = success_count + 1
    /\ io' = [io EXCEPT ![i] = "ok"]
    /\ NextSymbol
    /\ UNCHANGED <<pipeline, ticker_map, index_file, error_count, seen_tickers,
                   raw_news, processed, fetch_calls, ret>>

\* lines 46-48: writing the clone raises, outside any try
ReuseWriteFails ==
    /\ AtSymbol("prices")
    /\ CacheHit(ticker_map[i])
    /\ files[seen_tickers[ticker_map[i]]].kind = "json"
    /\ \E w \in WriteFailures :
         /\ io' = [io EXCEPT ![i] = w]
         /\ files' = IF w = "truncated" THEN [files EXCEPT ![i] = Corrupt] ELSE files
    /\ Crash
    /\ UNCHANGED <<pipeline, ticker_map, index_file, price_index, success_count,
                   error_count, seen_tickers, raw_news, processed, fetch_calls, ret>>

(* fetch_prices.py, lines 53-90: the ticker is registered, then fetched *)

\* line 53 and the call of line 57, with what the provider answers
Fetch(answer) ==
    /\ AtSymbol("prices")
    /\ ~CacheHit(ticker_map[i])
    /\ seen_tickers' = Put(seen_tickers, ticker_map[i], i)
    /\ fetch_calls' = [fetch_calls EXCEPT ![ticker_map[i]] = @ + 1]
    /\ ret' = [ret EXCEPT ![i] = answer]
    /\ UNCHANGED <<pipeline, ticker_map, index_file, raw_news, processed>>

\* lines 56-57, 88-90: the provider call raises
FetchRaises ==
    /\ Fetch(Raised)
    /\ error_count' = CountError(error_count)
    /\ NextSymbol
    /\ UNCHANGED <<files, price_index, success_count, io>>

\* lines 59-61: no rows
FetchEmpty ==
    /\ Fetch(Returned(<<>>))
    /\ NextSymbol
    /\ UNCHANGED <<files, price_index, success_count, error_count, io>>

\* lines 63-72, 88-90: a row whose Volume is NaN raises in int()
FetchBadRow ==
    /\ \E hist \in Hists : hist # <<>> /\ HistRaises(hist) /\ Fetch(Returned(hist))
    /\ error_count' = CountError(error_count)
    /\ NextSymbol
    /\ UNCHANGED <<files, price_index, success_count, io>>

\* lines 63-86: the artifact is written and indexed
FetchWrite ==
    /\ \E hist \in Hists :
         /\ hist # <<>> /\ ~HistRaises(hist) /\ Fetch(Returned(hist))
         /\ files' = [files EXCEPT ![i] =
                JsonFile(PriceArtifact(ticker_map[i], i, NormalizePrices(hist), now))]
         /\ price_index' = Put(price_index, i,
                [ticker |-> ticker_map[i], days |-> Len(NormalizePrices(hist))])
    /\ success_count' = success_count + 1
    /\ io' = [io EXCEPT ![i] = "ok"]
    /\ NextSymbol
    /\ UNCHANGED error_count

\* lines 74-82, 88-90: the write raises and the except clause counts it
FetchWriteFails ==
    /\ \E hist \in Hists : hist # <<>> /\ ~HistRaises(hist) /\ Fetch(Returned(hist))
    /\ \E w \in WriteFailures :
         /\ io' = [io EXCEPT ![i] = w]
         /\ files' = IF w = "truncated" THEN [files EXCEPT ![i] = Corrupt] ELSE files
    /\ error_count' = CountError(error_count)
    /\ NextSymbol
    /\ UNCHANGED <<price_index, success_count>>

(* fetch_news.py, lines 34-73: every symbol is fetched, no cache *)

\* lines 36-37, with what the provider answers
NewsFetch(answer) ==
    /\ AtSymbol("news")
    /\ fetch_calls' = [fetch_calls EXCEPT ![ticker_map[i]] = @ + 1]
    /\ ret' = [ret EXCEPT ![i] = answer]
    /\ UNCHANGED <<pipeline, ticker_map, index_file, seen_tickers>>

\* lines 36-37, 71-73: the provider call raises
NewsRaises ==
    /\ NewsFetch(Raised)
    /\ error_count' = CountError(error_count)
    /\ NextSymbol
    /\ UNCHANGED <<files, price_index, success_count, io, raw_news, processed>>

\* lines 39-49, 71-73: the slice of a news field that is no sequence raises
\* before anything is appended
NewsNormalizeFails ==
    /\ \E c \in NewsCases :
         /\ c.out.k = "raise"
         /\ NewsFetch(Returned(c.raw))
         /\ raw_news' = c.raw
    /\ processed' = Ok(<<>>)
    /\ error_count' = CountError(error_count)
    /\ NextSymbol
    /\ UNCHANGED <<files, price_index, success_count, io>>

\* lines 61, 68-69: nothing to write
NewsEmpty ==
    /\ \E c \in NewsCases :
         /\ c.out.k = "ok" /\ c.out.items = <<>>
         /\ NewsFetch(Returned(c.raw))
         /\ raw_news' = c.raw
         /\ processed' = c.out
    /\ NextSymbol
    /\ UNCHANGED <<files, price_index, success_count, error_count, io>>

\* lines 61-67: the artifact is written and indexed
NewsWrite ==
    /\ \E c \in NewsCases :
         /\ c.out.k = "ok" /\ c.out.items # <<>>
         /\ NewsFetch(Returned(c.raw))
         /\ raw_news' = c.raw
         /\ processed' = c.out
         /\ files' = [files EXCEPT ![i] =
                JsonFile(NewsArtifact(ticker_map[i], i, c.out.items, now))]
         /\ price_index' = Put(price_index, i,
                [ticker |-> ticker_map[i], count |-> Len(c.out.items)])
    /\ success_count' = success_count + 1
    /\ io' = [io EXCEPT ![i] = "ok"]
    /\ NextSymbol
    /\ UNCHANGED error_count

\* lines 62-64, 71-73: the write raises and the except clause counts it
NewsWriteFails ==
    /\ \E c \in NewsCases :
         /\ c.out.k = "ok" /\ c.out.items # <<>>
         /\ NewsFetch(Returned(c.raw))
         /\ raw_news' = c.raw
         /\ processed' = c.out
    /\ \E w \in WriteFailures :
         /\ io' = [io EXCEPT ![i] = w]
         /\ files' = IF w = "truncated" THEN [files EXCEPT ![i] = Corrupt] ELSE files
    /\ error_count' = CountError(error_count)
    /\ NextSymbol
    /\ UNCHANGED <<price_index, success_count>>

\* fetch_prices.py lines 92-99, fetch_news.py lines 75-82: after the loop.
\* The failures modelled are those met while a symbol is handled; the index
\* write itself is taken to succeed
WriteIndex ==
    /\ pc = "loop"
    /\ pipeline \in {"prices", "news"}
    /\ i = NumCodes + 1
    /\ index_file' = JsonFile(IndexDocument(price_index, success_count, now))
    /\ pc' = "done"
    /\ UNCHANGED <<pipeline, ticker_map, files, i, now, price_index, success_count,
                   error_count, seen_tickers, raw_news, processed, fetch_calls, ret, io>>

Next ==
    \/ ReuseSkip
    \/ ReuseReadFails
    \/ ReuseClone
    \/ ReuseWriteFails
    \/ FetchRaises
    \/ FetchEmpty
    \/ FetchBadRow
    \/ FetchWrite
    \/ FetchWriteFails
    \/ NewsRaises
    \/ NewsNormalizeFails
    \/ NewsEmpty
    \/ NewsWrite
    \/ NewsWriteFails
    \/ WriteIndex

Spec == Init /\ [][Next]_vars

-----------------------------------------------------------------------------
(* The normalizer alone, applied to one raw response *)

InitNorm ==
    /\ pipeline = "normalize"
    /\ ticker_map = [c \in Codes |-> "T1"]
    /\ files = [c \in Codes |-> NoFile]
    /\ index_file = NoFile
    /\ pc = "loop"
    /\ i = 1
    /\ now = 1
    /\ price_index = <<>>
    /\ success_count = 0
    /\ error_count = 0
    /\ seen_tickers = <<>>
    /\ raw_news \in RawNewsInputs
    /\ processed = NotRun
    /\ fetch_calls = [t \in Tickers |-> 0]
    /\ ret = [c \in Codes |-> NotCalled]
    /\ io = [c \in Codes |-> "none"]

\* fetch_news.py lines 39-59 on raw_news
Normalize ==
    /\ pipeline = "normalize"
    /\ processed.k = "notrun"
    /\ processed' = NormalizeNews(raw_news)
    /\ UNCHANGED <<pipeline, ticker_map, files, index_file, pc, i, now, price_index,
                   success_count, error_count, seen_tickers, raw_news, fetch_calls,
                   ret, io>>

NextNorm == Normalize

SpecNorm == InitNorm /\ [][NextNorm]_vars

-----------------------------------------------------------------------------
(* Claims about the normalizer, checked under SpecNorm *)

Normalized == pipeline = "normalize" /\ processed.k # "notrun"

\* the resolved sequence of raw_news, and its first MaxArticles entries
Resolved == ResolveArticles(raw_news).items
Considered == SubSeq(Resolved, 1, IF Len(Resolved) < MaxArticles THEN Len(Resolved)
                                  ELSE MaxArticles)

\* C4: for a raw response of any of the three shapes, with entries of any
\* kind, normalization raises nothing and returns at most 20 articles.
C4_AtMostTwentyNeverRaises ==
    Normalized => processed.k = "ok" /\ Len(processed.items) <= MaxArticles

\* C4 witness: a response with more than 20 records was cut to 20 articles
C4_Witness ==
    /\ Normalized
    /\ Len(Resolved) > MaxArticles
    /\ \A j \in 1..Len(Resolved) : IsDict(Resolved[j])
    /\ processed.k = "ok"
    /\ Len(processed.items) = MaxArticles

\* the relatedTickers the specification describes for an article record
ClaimedRelatedTickers(content) ==
    IF HasKey(content, "relatedTickers") THEN content.fields["relatedTickers"]
    ELSE IF HasKey(content, "finance") /\ IsDict(content.fields["finance"])
              /\ HasKey(content.fields["finance"], "relatedTickers")
         THEN content.fields["finance"].fields["relatedTickers"]
         ELSE EmptyList

\* the article records the loop of lines 49-51 appends for, in order
AppendedFor == SelectSeq([j \in 1..Len(Considered) |-> Unwrap(Considered[j])], IsDict)

\* C9: every normalized article carries the direct relatedTickers field of
\* its record when the record has one, whatever the kind of finance; else
\* finance's relatedTickers when finance is a record; else the empty sequence.
C9_DirectRelatedTickersPreferred ==
    (Normalized /\ processed.k = "ok") =>
        /\ Len(processed.items) = Len(AppendedFor)
        /\ \A j \in 1..Len(processed.items) :
              processed.items[j].relatedTickers = ClaimedRelatedTickers(AppendedFor[j])

\* the record the specification builds the article of an entry from
ClaimedSource(entry) ==
    IF HasKey(entry, "content") /\ IsDict(entry.fields["content"]) THEN entry.fields["content"]
    ELSE entry

\* one article per record entry among the first 20, in order
ClaimedArticles ==
    LET records == SelectSeq(Considered, IsDict)
    IN [j \in 1..Len(records) |-> Article(ClaimedSource(records[j]))]

\* C10: the output holds one article per record entry among the first 20
\* entries, in order: built from the content sub-record when the entry has
\* one, from the entry itself otherwise; only entries that are no records
\* are skipped.
C10_OneArticlePerRecordEntry ==
    (Normalized /\ processed.k = "ok") => processed.items = ClaimedArticles

-----------------------------------------------------------------------------
(* Claims about the runs, checked under Spec *)

\* the loop has finished with symbol c
Handled(c) == c < i
CodesOf(t) == {c \in Codes : ticker_map[c] = t}
\* the code the ticker of c is registered under, once c is handled
SourceOf(c) == seen_tickers[ticker_map[c]]
\* the provider returned rows for c that lines 63-72 turn into bars
GotPrices(c) ==
    ret[c].kind = "returned" /\ ret[c].val # <<>> /\ ~HistRaises(ret[c].val)
\* the provider returned news for c that lines 39-59 turn into articles
GotNews(c) ==
    /\ ret[c].kind = "returned"
    /\ NormalizeNews(ret[c].val).k = "ok"
    /\ NormalizeNews(ret[c].val).items # <<>>
\* an artifact of this run is on disk for c
Written(c) == io[c] = "ok"
WriteFailed(c) == io[c] \in WriteFailures

\* C1 as stated: at the end of a price run, any two codes that map to the
\* same ticker have artifacts with identical prices and ticker and their own
\* code, and the provider was called exactly once for the ticker.
C1_TwoArtifactsOneFetch ==
    (pipeline = "prices" /\ pc = "done") =>
        \A a \in Codes, b \in Codes :
            (a # b /\ ticker_map[a] = ticker_map[b]) =>
                /\ files[a].kind = "json" /\ files[b].kind = "json"
                /\ files[a].obj.prices = files[b].obj.prices
                /\ files[a].obj.ticker = files[b].obj.ticker
                /\ files[a].obj.code = a /\ files[b].obj.code = b
                /\ fetch_calls[ticker_map[a]] = 1

\* C1 amended: if two codes map to the same ticker, the provider returns
\* rows for it that normalize, and no write fails for the ticker's first
\* code or for either of the two, then once both are handled their artifacts
\* hold identical prices and the ticker, each under its own code; and the
\* provider is called exactly once for a ticker once its first code is handled.
C1_TwoArtifactsWhenFetched ==
    pipeline = "prices" =>
        /\ \A a \in Codes, b \in Codes :
              ( /\ a # b /\ ticker_map[a] = ticker_map[b]
                /\ Handled(a) /\ Handled(b)
                /\ GotPrices(SourceOf(a))
                /\ ~WriteFailed(SourceOf(a)) /\ ~WriteFailed(a) /\ ~WriteFailed(b) )
              => /\ files[a].kind = "json" /\ files[b].kind = "json"
                 /\ files[a].obj.prices = files[b].obj.prices
                 /\ files[a].obj.ticker = ticker_map[a]
                 /\ files[b].obj.ticker = ticker_map[a]
                 /\ files[a].obj.code = a /\ files[b].obj.code = b
        /\ \A t \in Tickers :
              fetch_calls[t] = IF \E c \in CodesOf(t) : Handled(c) THEN 1 ELSE 0

\* C1 witness: a finished run in which a fetched artifact was cloned
C1_Witness ==
    /\ pipeline = "prices" /\ pc = "done"
    /\ \E a \in Codes, b \in Codes :
          /\ a < b /\ ticker_map[a] = ticker_map[b]
          /\ SourceOf(a) = a /\ GotPrices(a) /\ Written(a) /\ Written(b)
          /\ files[b].obj.prices = NormalizePrices(ret[a].val)
          /\ files[b].obj.code = b

\* the symbols whose provider call raised
ProviderFailed == {c \in Codes : ret[c].kind = "raised"}

\* the index as written at the end of the run
FinalIndex == index_file.obj

\* c was handled with provider data for its ticker and without a failure of
\* its own: in the news run its own response, in the price run the rows
\* fetched under the ticker's first code
HasData(c) ==
    /\ Handled(c)
    /\ ~WriteFailed(c)
    /\ IF pipeline = "news" THEN GotNews(c)
       ELSE GotPrices(SourceOf(c)) /\ ~WriteFailed(SourceOf(c))

\* the artifact of c holds what the provider returned
CorrectArtifact(c) ==
    /\ files[c].kind = "json"
    /\ files[c].obj.code = c
    /\ files[c].obj.ticker = ticker_map[c]
    /\ IF pipeline = "news"
       THEN files[c].obj.articles = NormalizeNews(ret[c].val).items
       ELSE /\ files[c].obj.prices = NormalizePrices(ret[SourceOf(c)].val)
            /\ files[c].obj.days = Len(ret[SourceOf(c)].val)

\* C2: in both pipelines, a symbol whose provider call raised does not stop
\* the run (the loop moves past it), is counted in the error count and is
\* absent from the index; every other handled symbol whose ticker has
\* provider data, and that met no failure of its own, has its correct
\* artifact and its index entry, also in the index written at the end.
C2_ProviderFailureIsolated ==
    (pipeline \in {"prices", "news"} /\ ProviderFailed # {}) =>
        /\ \A c \in ProviderFailed :
              /\ Handled(c)
              /\ c \notin DOMAIN price_index
              /\ pc = "done" => c \notin DOMAIN FinalIndex.stocks
        /\ error_count >= Cardinality(ProviderFailed)
        /\ \A c \in Codes \ ProviderFailed :
              HasData(c) =>
                  /\ CorrectArtifact(c)
                  /\ c \in DOMAIN price_index
                  /\ price_index[c].ticker = ticker_map[c]
                  /\ pc = "done" => c \in DOMAIN FinalIndex.stocks

\* C2 witness: a finished run in which the provider raised for one symbol and
\* a later symbol got its artifact and index entry
C2_Witness ==
    /\ pc = "done"
    /\ \E c \in ProviderFailed, d \in Codes :
          /\ c < d /\ HasData(d) /\ CorrectArtifact(d)
          /\ d \in DOMAIN FinalIndex.stocks
          /\ c \notin DOMAIN FinalIndex.stocks
          /\ error_count >= 1

\* a failure met while symbol c was handled: the provider call, the
\* normalization or the artifact write raised
FailedAt(c) ==
    \/ ret[c].kind = "raised"
    \/ WriteFailed(c)
    \/ /\ ret[c].kind = "returned"
       /\ IF pipeline = "news" THEN NormalizeNews(ret[c].val).k = "raise"
          ELSE HistRaises(ret[c].val)

\* C3: no failure while a single symbol is handled ends the run: the run
\* never dies of an exception, and every failure met so far is in the error
\* count.
C3_NoFailureIsFatal ==
    /\ pc # "crashed"
    /\ error_count = Cardinality({c \in Codes : FailedAt(c)})

\* C5: a price-run step taken at a symbol whose ticker is in the cache while
\* the file of the recorded source code is absent only moves to the next
\* symbol: no file is written, the index and both counts stay as they are
\* and the provider is not called.
C5_MissingSourceSkipped ==
    [][ ( /\ pipeline = "prices" /\ pc = "loop" /\ i \in Codes
          /\ ticker_map[i] \in DOMAIN seen_tickers
          /\ files[seen_tickers[ticker_map[i]]].kind = "absent" )
        => ( /\ files' = files
             /\ price_index' = price_index
             /\ success_count' = success_count
             /\ error_count' = error_count
             /\ fetch_calls' = fetch_calls
             /\ ret' = ret
             /\ pc' = "loop" /\ i' = i + 1 ) ]_vars

\* C5 witness: a handled symbol whose ticker was registered under another
\* code with no file, and that was skipped
C5_Witness ==
    /\ pipeline = "prices"
    /\ \E c \in Codes :
          /\ Handled(c)
          /\ SourceOf(c) # c
          /\ files[SourceOf(c)].kind = "absent"
          /\ ret[c].kind = "notcalled" /\ io[c] = "none"
          /\ c \notin DOMAIN price_index

\* C6: at the end of a run the index's totalStocks is the number of entries
\* of its stocks mapping, which holds exactly the codes an artifact was
\* written for in this run, each with the ticker and the days (count) of
\* that artifact.
C6_IndexMatchesArtifacts ==
    (pipeline \in {"prices", "news"} /\ pc = "done") =>
        /\ FinalIndex.totalStocks = Cardinality(DOMAIN FinalIndex.stocks)
        /\ DOMAIN FinalIndex.stocks = {c \in Codes : Written(c)}
        /\ \A c \in DOMAIN FinalIndex.stocks :
              /\ files[c].kind = "json"
              /\ FinalIndex.stocks[c].ticker = files[c].obj.ticker
              /\ IF pipeline = "prices"
                 THEN FinalIndex.stocks[c].days = files[c].obj.days
                 ELSE FinalIndex.stocks[c].count = Len(files[c].obj.articles)

\* C7: a price-run step that writes an artifact for a symbol whose ticker is
\* in the cache writes the source's document with only code replaced, leaves
\* the source's file and every index entry there is as they are, enters the
\* source's days under the current code and leaves the error count alone.
C7_CloneDiffersOnlyInCode ==
    [][ ( /\ pipeline = "prices" /\ pc = "loop" /\ i \in Codes
          /\ ticker_map[i] \in DOMAIN seen_tickers
          /\ io'[i] = "ok" )
        => LET src == seen_tickers[ticker_map[i]] IN
           /\ files'[i].kind = "json"
           /\ files'[i].obj = [files[src].obj EXCEPT !.code = i]
           /\ \A c \in Codes \ {i} : files'[c] = files[c]
           /\ DOMAIN price_index' = DOMAIN price_index \cup {i}
           /\ \A c \in DOMAIN price_index : price_index'[c] = price_index[c]
           /\ price_index'[i].days = files[src].obj.days
           /\ error_count' = error_count
           /\ fetch_calls' = fetch_calls ]_vars

\* C7 witness: a handled symbol holds the clone of its source's artifact
C7_Witness ==
    /\ pipeline = "prices"
    /\ \E c \in Codes :
          /\ Handled(c) /\ SourceOf(c) # c /\ Written(c)
          /\ files[SourceOf(c)].kind = "json"
          /\ files[c].obj = [files[SourceOf(c)].obj EXCEPT !.code = c]
          /\ files[c].obj.fetchedAt < now - 1

\* C8: every artifact cloned in a price run was cloned from an artifact
\* that a successful fetch of the same ticker wrote earlier in this run.
C8_ClonesOnlyThisRunsArtifacts ==
    pipeline = "prices" =>
        \A c \in Codes :
            (Handled(c) /\ SourceOf(c) # c /\ Written(c)) =>
                /\ GotPrices(SourceOf(c))
                /\ Written(SourceOf(c))
                /\ files[c].obj.prices = NormalizePrices(ret[SourceOf(c)].val)

=============================================================================
